---- MODULE Spec2Model ----
(***************************************************************************)
(* Model of app.py: the weather forecast pipeline                          *)
(*   geocode_place -> fetch_open_meteo -> format_forecast_text ->          *)
(*   hf_summarize, composed by get_forecast_for_place.                     *)
(*                                                                         *)
(* Python values are tagged records.  A dict is a sequence of key/value    *)
(* pairs (Python dicts keep insertion order).  A float is held in tenths.  *)
(* Python strings are TLA+ strings; the three non-ASCII characters of the  *)
(* source's literals are written with one ASCII character each:            *)
(*   degree sign -> "^",  en dash -> "-",  em dash -> "-".                 *)
(* A call's outcome is Ret(value) or Raise(type, message).                 *)
(***************************************************************************)
EXTENDS Integers, Sequences, FiniteSets, TLC

VARIABLES
  pc,                \* where the call under study stands
  args,              \* the arguments it was called with
  env_token,         \* os.environ.get("HF_API_TOKEN"): None when unset
  place,             \* get_forecast_for_place: place, once stripped
  geo,               \* get_forecast_for_place: geo
  name,              \* get_forecast_for_place: name
  forecast,          \* get_forecast_for_place: forecast
  raw_text_summary,  \* get_forecast_for_place: raw_text_summary
  calls,             \* the outbound HTTP requests issued so far, in order
  replies,           \* what the network gave back to each of them
  result             \* how the call ended: Ret(value) or Raise(type, msg)

vars == <<pc, args, env_token, place, geo, name, forecast,
          raw_text_summary, calls, replies, result>>

(* ------------------------------ bounds -------------------------------- *)
MaxLen == 3
ExtraLen == 5

(* --------------------------- Python values ---------------------------- *)
PNone == [t |-> "None"]
PBool(b) == [t |-> "bool", b |-> b]
PInt(n) == [t |-> "int", n |-> n]
PFloat(tenths) == [t |-> "float", tenths |-> tenths]
PStr(s) == [t |-> "str", s |-> s]
PList(items) == [t |-> "list", items |-> items]
PDict(pairs) == [t |-> "dict", pairs |-> pairs]
KV(k, v) == [k |-> k, v |-> v]
EmptyDict == PDict(<<>>)

Ret(v) == [kind |-> "return", val |-> v]
Raise(type, msg) == [kind |-> "raise", type |-> type, msg |-> msg]
NoResult == [kind |-> "none"]

Min(a, b) == IF a < b THEN a ELSE b
Abs(n) == IF n < 0 THEN 0 - n ELSE n

(* bool(v) *)
Truthy(v) ==
  CASE v.t = "None" -> FALSE
    [] v.t = "bool" -> v.b
    [] v.t = "int" -> v.n # 0
    [] v.t = "float" -> v.tenths # 0
    [] v.t = "str" -> v.s # ""
    [] v.t = "list" -> Len(v.items) > 0
    [] v.t = "dict" -> Len(v.pairs) > 0

(* type(v).__name__ *)
TypeName(v) == IF v.t = "None" THEN "NoneType" ELSE v.t

(* key in d, for a dict d *)
HasKey(d, key) == \E i \in 1..Len(d.pairs) : d.pairs[i].k = key

(* d.get(key, default), for a dict d *)
DictGet(d, key, default) ==
  IF HasKey(d, key)
  THEN d.pairs[CHOOSE i \in 1..Len(d.pairs) : d.pairs[i].k = key].v
  ELSE default

(* v.get(key, default): only a dict has the method *)
PyGet(v, key, default) ==
  IF v.t = "dict" THEN Ret(DictGet(v, key, default))
  ELSE Raise("AttributeError",
             "'" \o TypeName(v) \o "' object has no attribute 'get'")

(* ------------------------------ strings ------------------------------- *)
Whitespace == {" ", "\t", "\n", "\r", "\f"}

Char(s, i) == SubSeq(s, i, i)

RECURSIVE LStrip(_)
LStrip(s) ==
  IF s = "" THEN ""
  ELSE IF Char(s, 1) \in Whitespace THEN LStrip(SubSeq(s, 2, Len(s))) ELSE s

RECURSIVE RStrip(_)
RStrip(s) ==
  IF s = "" THEN ""
  ELSE IF Char(s, Len(s)) \in Whitespace
       THEN RStrip(SubSeq(s, 1, Len(s) - 1)) ELSE s

(* s.strip() *)
PyStrip(s) == RStrip(LStrip(s))

(* s[:n] *)
Prefix(s, n) == SubSeq(s, 1, Min(n, Len(s)))

(* sub in s, for strings *)
Contains(s, sub) ==
  \E i \in 1..(Len(s) - Len(sub) + 1) : SubSeq(s, i, i + Len(sub) - 1) = sub

(* sep.join(parts) *)
RECURSIVE Join(_, _)
Join(sep, parts) ==
  IF Len(parts) = 0 THEN ""
  ELSE IF Len(parts) = 1 THEN parts[1]
  ELSE parts[1] \o sep \o Join(sep, Tail(parts))

Digits == <<"0", "1", "2", "3", "4", "5", "6", "7", "8", "9">>
IsDigit(c) == \E i \in 1..10 : Digits[i] = c
DigitVal(c) == (CHOOSE i \in 1..10 : Digits[i] = c) - 1
AllDigits(s) == s # "" /\ \A i \in 1..Len(s) : IsDigit(Char(s, i))

RECURSIVE ParseNat(_)
ParseNat(s) ==
  IF s = "" THEN 0
  ELSE 10 * ParseNat(SubSeq(s, 1, Len(s) - 1)) + DigitVal(Char(s, Len(s)))

(* str(x) of a float held in tenths *)
FloatStr(tenths) ==
  (IF tenths < 0 THEN "-" ELSE "") \o ToString(Abs(tenths) \div 10)
    \o "." \o ToString(Abs(tenths) % 10)

(* repr(v) and str(v); a string's repr is quoted, its str is itself *)
RECURSIVE PyRepr(_)
RECURSIVE ReprItems(_)
RECURSIVE ReprPairs(_)
ReprItems(items) ==
  IF Len(items) = 0 THEN <<>>
  ELSE <<PyRepr(Head(items))>> \o ReprItems(Tail(items))
ReprPairs(pairs) ==
  IF Len(pairs) = 0 THEN <<>>
  ELSE <<"'" \o Head(pairs).k \o "': " \o PyRepr(Head(pairs).v)>>
         \o ReprPairs(Tail(pairs))
PyRepr(v) ==
  CASE v.t = "None" -> "None"
    [] v.t = "bool" -> IF v.b THEN "True" ELSE "False"
    [] v.t = "int" -> ToString(v.n)
    [] v.t = "float" -> FloatStr(v.tenths)
    [] v.t = "str" -> "'" \o v.s \o "'"
    [] v.t = "list" -> "[" \o Join(", ", ReprItems(v.items)) \o "]"
    [] v.t = "dict" -> "{" \o Join(", ", ReprPairs(v.pairs)) \o "}"

PyStr(v) == IF v.t = "str" THEN v.s ELSE PyRepr(v)

(* v == 0, as Python compares a value with the integer 0 *)
EqInt(v, k) ==
  CASE v.t = "int" -> v.n = k
    [] v.t = "float" -> v.tenths = 10 * k
    [] v.t = "bool" -> (IF v.b THEN 1 ELSE 0) = k
    [] OTHER -> FALSE

(* int(v); a string is parsed as an optionally signed run of decimal      *)
(* digits with surrounding whitespace stripped                            *)
PyInt(v) ==
  CASE v.t = "int" -> Ret(v.n)
    [] v.t = "bool" -> Ret(IF v.b THEN 1 ELSE 0)
    [] v.t = "float" ->
         Ret(IF v.tenths < 0 THEN 0 - (Abs(v.tenths) \div 10)
             ELSE v.tenths \div 10)
    [] v.t = "str" ->
         LET s == PyStrip(v.s)
             signed == s # "" /\ Char(s, 1) \in {"-", "+"}
             body == IF signed THEN SubSeq(s, 2, Len(s)) ELSE s
         IN IF AllDigits(body)
            THEN Ret(IF signed /\ Char(s, 1) = "-"
                     THEN 0 - ParseNat(body) ELSE ParseNat(body))
            ELSE Raise("ValueError",
                       "invalid literal for int() with base 10: " \o PyRepr(v))
    [] OTHER ->
         Raise("TypeError",
               "int() argument must be a string, a bytes-like object or a "
               \o "real number, not '" \o TypeName(v) \o "'")

(* ------------------------ datetime (line 68) -------------------------- *)
IsLeap(y) == (y % 4 = 0 /\ y % 100 # 0) \/ y % 400 = 0

DaysInMonth(y, m) ==
  IF m = 2 THEN (IF IsLeap(y) THEN 29 ELSE 28)
  ELSE IF m \in {4, 6, 9, 11} THEN 30 ELSE 31

(* datetime.datetime.fromisoformat(d).  The date-only form YYYY-MM-DD, the *)
(* form the forecast endpoint sends in daily.time, is parsed; the other   *)
(* strings the inputs below hold ("tomorrow", single characters) are ones *)
(* the parser rejects.                                                    *)
FromIsoFormat(d) ==
  IF d.t # "str"
  THEN Raise("TypeError", "fromisoformat: argument must be str")
  ELSE LET s == d.s
           shaped == /\ Len(s) = 10
                     /\ Char(s, 5) = "-" /\ Char(s, 8) = "-"
                     /\ AllDigits(SubSeq(s, 1, 4))
                     /\ AllDigits(SubSeq(s, 6, 7))
                     /\ AllDigits(SubSeq(s, 9, 10))
           y == ParseNat(SubSeq(s, 1, 4))
           m == ParseNat(SubSeq(s, 6, 7))
           dd == ParseNat(SubSeq(s, 9, 10))
       IN IF shaped /\ y >= 1 /\ m \in 1..12 /\ dd >= 1
             /\ dd <= DaysInMonth(y, m)
          THEN Ret([year |-> y, month |-> m, day |-> dd])
          ELSE Raise("ValueError", "Invalid isoformat string: " \o PyRepr(d))

WeekdayNames == <<"Sun", "Mon", "Tue", "Wed", "Thu", "Fri", "Sat">>
MonthNames == <<"Jan", "Feb", "Mar", "Apr", "May", "Jun",
                "Jul", "Aug", "Sep", "Oct", "Nov", "Dec">>
MonthOffsets == <<0, 3, 2, 5, 0, 3, 5, 1, 4, 6, 2, 4>>

(* day of the week of a proleptic Gregorian date, 0 = Sunday *)
Weekday(dt) ==
  LET y == IF dt.month < 3 THEN dt.year - 1 ELSE dt.year
  IN (y + (y \div 4) - (y \div 100) + (y \div 400)
        + MonthOffsets[dt.month] + dt.day) % 7

(* dt.strftime("%a %d %b") *)
Strftime(dt) ==
  WeekdayNames[Weekday(dt) + 1] \o " "
    \o (IF dt.day < 10 THEN "0" ELSE "") \o ToString(dt.day) \o " "
    \o MonthNames[dt.month]

(* ------------------------ _weathercode_to_text ------------------------ *)
CodeIn(code, ks) == \E k \in ks : EqInt(code, k)

_weathercode_to_text(code) ==
  IF CodeIn(code, {0}) THEN "Clear sky"
  ELSE IF CodeIn(code, {1, 2, 3}) THEN "Mainly clear to partly cloudy"
  ELSE IF CodeIn(code, {45, 48}) THEN "Fog or depositing rime fog"
  ELSE IF CodeIn(code, {51, 53, 55}) THEN "Drizzle"
  ELSE IF CodeIn(code, {61, 63, 65}) THEN "Rain"
  ELSE IF CodeIn(code, {71, 73, 75}) THEN "Snow"
  ELSE IF CodeIn(code, {95, 96, 99}) THEN "Thunderstorms"
  ELSE "Mixed/unknown weather"

(* ------------------------ format_forecast_text ------------------------ *)
(* iter(v): the items a for/zip draws from v *)
RECURSIVE StrChars(_)
StrChars(s) ==
  IF s = "" THEN <<>> ELSE <<PStr(Char(s, 1))>> \o StrChars(SubSeq(s, 2, Len(s)))

PyIter(v) ==
  CASE v.t = "list" -> Ret(v.items)
    [] v.t = "str" -> Ret(StrChars(v.s))
    [] v.t = "dict" -> Ret([i \in 1..Len(v.pairs) |-> PStr(v.pairs[i].k)])
    [] OTHER -> Raise("TypeError",
                      "'" \o TypeName(v) \o "' object is not iterable")

(* the loop body, lines 68-72: one dated line, or the first exception *)
DayLine(d, hi, lo, p, wc) ==
  LET date == FromIsoFormat(d)
      precip_note == IF p.t = "None" \/ EqInt(p, 0)
                     THEN "no significant rain"
                     ELSE PyStr(p) \o " mm precipitation expected"
      wc_note == _weathercode_to_text(wc)
      ilo == PyInt(lo)
      ihi == PyInt(hi)
  IN IF date.kind = "raise" THEN date
     ELSE IF ilo.kind = "raise" THEN ilo
     ELSE IF ihi.kind = "raise" THEN ihi
     ELSE Ret(Strftime(date.val) \o ": " \o wc_note \o ". Temp "
              \o ToString(ilo.val) \o "^C-" \o ToString(ihi.val) \o "^C, "
              \o precip_note \o ".")

(* zip(...): as many tuples as the shortest series has items *)
ZipLen(series) ==
  LET lens == {Len(series[k]) : k \in 1..Len(series)}
  IN CHOOSE n \in lens : \A m \in lens : n <= m

RECURSIVE ZipLines(_, _, _)
ZipLines(series, i, n) ==
  IF i > n THEN Ret(<<>>)
  ELSE LET line == DayLine(series[1][i], series[2][i], series[3][i],
                           series[4][i], series[5][i])
       IN IF line.kind = "raise" THEN line
          ELSE LET rest == ZipLines(series, i + 1, n)
               IN IF rest.kind = "raise" THEN rest
                  ELSE Ret(<<line.val>> \o rest.val)

(* the loop of line 67 indexed by the dates instead of zipped *)
ForecastLinesIndexed(series) ==
  IF \E k \in 2..5 : Len(series[k]) < Len(series[1])
  THEN Raise("IndexError", "list index out of range")
  ELSE ZipLines(series, 1, Len(series[1]))

(* for d, hi, lo, p, wc in zip(dates, tmax, tmin, precip, weathercodes) *)
ForecastLines(series) == ZipLines(series, 1, ZipLen(series))

DailyKeys == <<"time", "temperature_2m_max", "temperature_2m_min",
               "precipitation_sum", "weathercode">>

format_forecast_text(place_name, forecast_json) ==
  LET daily == PyGet(forecast_json, "daily", EmptyDict)
  IN IF daily.kind = "raise" THEN daily
     ELSE LET got == [k \in 1..5 |-> PyGet(daily.val, DailyKeys[k], PList(<<>>))]
          IN IF got[1].kind = "raise" THEN got[1]
             ELSE LET its == [k \in 1..5 |-> PyIter(got[k].val)]
                      header == "Weather forecast for " \o place_name \o ":\n"
                  IN IF \E k \in 1..5 : its[k].kind = "raise"
                     THEN its[CHOOSE k \in 1..5 :
                                /\ its[k].kind = "raise"
                                /\ \A j \in 1..(k - 1) : its[j].kind # "raise"]
                     ELSE LET series == [k \in 1..5 |-> its[k].val]
                              body == ForecastLines(series)
                          IN IF body.kind = "raise" THEN body
                             ELSE Ret(PStr(Join("\n", <<header>> \o body.val)))

(* ------------------------------- HTTP --------------------------------- *)
GEOCODE_URL == "https://geocoding-api.open-meteo.com/v1/search"
FORECAST_URL == "https://api.open-meteo.com/v1/forecast"
HF_INFERENCE_URL == "https://api-inference.huggingface.co/models/"
HF_MODEL == "google/flan-t5-small"

Request(method, url) == [method |-> method, url |-> url]

(* What the network gives back to a request: the transport raises, or a    *)
(* response arrives with a status and a body that is JSON or is not.       *)
Response(status, reason, body) ==
  [status |-> status, reason |-> reason, body |-> body]
NotJson == Raise("JSONDecodeError", "Expecting value: line 1 column 1 (char 0)")

(* r = requests.get/post(...); r.raise_for_status(); r.json() *)
HttpJson(url, outcome) ==
  IF outcome.kind = "raise" THEN outcome
  ELSE LET r == outcome.val
       IN IF r.status >= 400 /\ r.status < 600
          THEN Raise("HTTPError",
                     ToString(r.status)
                     \o (IF r.status < 500 THEN " Client Error: "
                         ELSE " Server Error: ")
                     \o r.reason \o " for url: " \o url)
          ELSE r.body

TransportFailures ==
  {Raise("ReadTimeout", "Read timed out."),
   Raise("ConnectionError", "Failed to establish a new connection")}

HttpFailures ==
  {Ret(Response(503, "Service Unavailable", NotJson)),
   Ret(Response(404, "Not Found", Ret(PDict(<<KV("error", PStr("x"))>>)))),
   Ret(Response(200, "OK", NotJson))}

Ok(data) == Ret(Response(200, "OK", Ret(data)))

(* ---------------------------- hf_summarize ---------------------------- *)
TextLimit == 2000
ReprLimit == 1000

(* needle in v *)
PyIn(needle, v) ==
  CASE v.t = "dict" -> Ret(HasKey(v, needle))
    [] v.t = "str" -> Ret(Contains(v.s, needle))
    [] v.t = "list" ->
         Ret(\E j \in 1..Len(v.items) : v.items[j] = PStr(needle))
    [] OTHER -> Raise("TypeError", "argument of type '" \o TypeName(v)
                                   \o "' is not iterable")

(* v[key], for a string key *)
PyItem(v, key) ==
  CASE v.t = "dict" ->
         IF HasKey(v, key) THEN Ret(DictGet(v, key, PNone))
         ELSE Raise("KeyError", "'" \o key \o "'")
    [] v.t = "str" ->
         Raise("TypeError", "string indices must be integers, not 'str'")
    [] v.t = "list" ->
         Raise("TypeError", "list indices must be integers or slices, not str")
    [] OTHER -> Raise("TypeError", "'" \o TypeName(v)
                                   \o "' object is not subscriptable")

(* v.strip() *)
PyStripOf(v) ==
  IF v.t = "str" THEN Ret(PStr(PyStrip(v.s)))
  ELSE Raise("AttributeError",
             "'" \o TypeName(v) \o "' object has no attribute 'strip'")

(* v[key].strip() *)
ItemStripped(v, key) ==
  LET item == PyItem(v, key)
  IN IF item.kind = "raise" THEN item ELSE PyStripOf(item.val)

(* lines 107-118: the body of the try block *)
HfTry(url, outcome) ==
  LET data == HttpJson(url, outcome)
  IN IF data.kind = "raise" THEN data
     ELSE LET d == data.val
              first == IF d.t = "list" /\ Len(d.items) # 0
                       THEN PyIn("generated_text", d.items[1])
                       ELSE Ret(FALSE)
          IN IF first.kind = "raise" THEN first
             ELSE IF first.val THEN ItemStripped(d.items[1], "generated_text")
             ELSE IF d.t = "dict" /\ HasKey(d, "generated_text")
                  THEN ItemStripped(d, "generated_text")
             ELSE IF d.t = "str" THEN Ret(PStr(PyStrip(d.s)))
             ELSE Ret(PStr("(Summarization produced unexpected output) "
                           \o Prefix(PyStr(d), ReprLimit)))

(* an except clause that names the requests errors only *)
HfExceptRequestsOnly(r, text) ==
  IF r.kind = "raise"
     /\ r.type \in {"ReadTimeout", "ConnectionError", "HTTPError",
                    "JSONDecodeError"}
  THEN Ret(PStr("(Hugging Face summarization failed: " \o r.msg \o ")\n\n"
                \o Prefix(text, TextLimit)))
  ELSE r

(* lines 119-120: except Exception as e *)
HfExcept(r, text) ==
  IF r.kind = "raise"
  THEN Ret(PStr("(Hugging Face summarization failed: " \o r.msg \o ")\n\n"
                \o Prefix(text, TextLimit)))
  ELSE r

(* the skip notice followed by the whole text *)
HfSkippedWhole(text) ==
  Ret(PStr("(Hugging Face token not provided; summarization skipped)\n\n"
           \o text))

(* line 98 *)
HfSkipped(text) ==
  Ret(PStr("(Hugging Face token not provided; summarization skipped)\n\n"
           \o Prefix(text, TextLimit)))

(* line 96: token = hf_token or os.environ.get("HF_API_TOKEN") *)
HfToken(hf_token, env) == IF Truthy(hf_token) THEN hf_token ELSE env

(* the POST of line 107 sent again after a first attempt *)
HfRequestsRetried(model, hf_token, env) ==
  IF Truthy(HfToken(hf_token, env))
  THEN <<Request("POST", HF_INFERENCE_URL \o model),
         Request("POST", HF_INFERENCE_URL \o model)>>
  ELSE <<>>

(* the POST of line 107, when hf_summarize gets as far as issuing it *)
HfRequests(model, hf_token, env) ==
  IF Truthy(HfToken(hf_token, env))
  THEN <<Request("POST", HF_INFERENCE_URL \o model)>>
  ELSE <<>>

hf_summarize(text, model, hf_token, env, outcome) ==
  IF ~Truthy(HfToken(hf_token, env)) THEN HfSkipped(text)
  ELSE HfExcept(HfTry(HF_INFERENCE_URL \o model, outcome), text)

(* --------------------------- geocode_place ---------------------------- *)
(* v[0] *)
PyFirst(v) ==
  CASE v.t = "list" ->
         IF Len(v.items) > 0 THEN Ret(v.items[1])
         ELSE Raise("IndexError", "list index out of range")
    [] v.t = "str" ->
         IF v.s # "" THEN Ret(PStr(Char(v.s, 1)))
         ELSE Raise("IndexError", "string index out of range")
    [] v.t = "dict" -> Raise("KeyError", "0")
    [] OTHER -> Raise("TypeError", "'" \o TypeName(v)
                                   \o "' object is not subscriptable")

(* lines 33-38 *)
geocode_place(outcome) ==
  LET data == HttpJson(GEOCODE_URL, outcome)
  IN IF data.kind = "raise" THEN data
     ELSE LET results == PyGet(data.val, "results", PNone)
          IN IF results.kind = "raise" THEN results
             ELSE IF Truthy(results.val) THEN PyFirst(results.val)
             ELSE Ret(PNone)

(* -------------------------- fetch_open_meteo -------------------------- *)
(* lines 42-55.  The date window and the coordinates go into the query;    *)
(* what comes back is the network's to decide.                             *)
fetch_open_meteo(lat, lon, ndays, outcome) == HttpJson(FORECAST_URL, outcome)

(* ---------------------- get_forecast_for_place ------------------------ *)
Guidance == "Please enter a location (e.g., 'Rahim Yar Khan, Pakistan')."

NoTokenNotice ==
  "(HF token not set - set HF_API_TOKEN to enable model summarization)\n\n"

(* the (text, data) pair the function returns *)
Pair(msg, data) == Ret(<<PStr(msg), data>>)

(* ------------------- inputs of format_forecast_text ------------------- *)
TwoDigits(n) == (IF n < 10 THEN "0" ELSE "") \o ToString(n)

(* the i-th entry the forecast endpoint sends in each daily series *)
DateAt(i) == PStr("2024-01-" \o TwoDigits(7 + i))
TmaxAt(i) == PFloat(219 + 13 * i)
TminAt(i) == IF i % 2 = 1 THEN PFloat(0 - 5) ELSE PInt(11 + i)
PrecipAt(i) ==
  CASE i % 4 = 1 -> PFloat(25) [] i % 4 = 2 -> PNone
    [] i % 4 = 3 -> PInt(0) [] OTHER -> PFloat(0)
CodeAt(i) ==
  CASE i % 4 = 1 -> PInt(0) [] i % 4 = 2 -> PInt(61)
    [] i % 4 = 3 -> PInt(200) [] OTHER -> PFloat(30)

EntryAt(k, i) ==
  CASE k = 1 -> DateAt(i) [] k = 2 -> TmaxAt(i) [] k = 3 -> TminAt(i)
    [] k = 4 -> PrecipAt(i) [] OTHER -> CodeAt(i)

(* an entry the formatter cannot render: a date that is no ISO date, a     *)
(* temperature that is null                                               *)
BadEntry(k) == IF k = 1 THEN PStr("tomorrow") ELSE PNone

NoBad == <<0, 0>>
Absent == 0 - 1

(* a forecast body whose k-th daily series has lens[k] entries (Absent:    *)
(* the key is missing) and whose entry bad[2] of series bad[1] is bad      *)
MkForecast(lens, bad) ==
  LET Present(k) == lens[k] # Absent
      keys == SelectSeq(<<1, 2, 3, 4, 5>>, Present)
      Series(k) == [i \in 1..lens[k] |->
                      IF bad = <<k, i>> THEN BadEntry(k) ELSE EntryAt(k, i)]
  IN PDict(<<KV("latitude", PFloat(315)),
             KV("daily", PDict([j \in 1..Len(keys) |->
                                  KV(DailyKeys[keys[j]],
                                     PList(Series(keys[j])))]))>>)

SeriesLens == [1..5 -> (Absent..MaxLen) \cup {ExtraLen}]

ShapedForecasts ==
  {MkForecast(lens, NoBad) : lens \in SeriesLens}
    \cup {MkForecast(lens, <<k, i>>) :
            lens \in [1..5 -> {MaxLen}], k \in 1..3, i \in 1..MaxLen}
    \cup {MkForecast([lens EXCEPT ![k] = i], <<k, i>>) :
            lens \in [1..5 -> {1, MaxLen}], k \in 1..3, i \in 1..MaxLen}

(* bodies that are JSON but not a forecast *)
MalformedForecasts ==
  {PNone, PList(<<>>), PStr("oops"), EmptyDict,
   PDict(<<KV("daily", PNone)>>),
   PDict(<<KV("daily", PList(<<>>))>>),
   PDict(<<KV("daily", EmptyDict)>>),
   PDict(<<KV("error", PBool(TRUE)), KV("reason", PStr("bad request"))>>),
   PDict(<<KV("daily", PDict(<<KV("time", PNone)>>))>>),
   PDict(<<KV("daily", PDict(<<KV("time", PList(<<DateAt(1)>>)),
                              KV("temperature_2m_max", PInt(3))>>))>>),
   PDict(<<KV("daily", PDict(<<KV("time", PStr("ab")),
                              KV("temperature_2m_max", PList(<<PStr(" 21 ")>>)),
                              KV("temperature_2m_min", PList(<<PBool(TRUE)>>)),
                              KV("precipitation_sum", PList(<<PStr("x")>>)),
                              KV("weathercode", PList(<<PStr("x")>>))>>))>>)}

PlaceNames == {"Lahore, Pakistan", "None, None"}

(* ---------------- specification: format_forecast_text ----------------- *)
InitFmt ==
  /\ pc = "format"
  /\ args \in [place_name : PlaceNames,
               forecast_json : ShapedForecasts \cup MalformedForecasts]
  /\ env_token = PNone /\ place = "" /\ geo = PNone /\ name = ""
  /\ forecast = PNone /\ raw_text_summary = "" /\ calls = <<>>
  /\ replies = <<>> /\ result = NoResult

CallFormat ==
  /\ pc = "format"
  /\ result' = format_forecast_text(args.place_name, args.forecast_json)
  /\ pc' = "done"
  /\ UNCHANGED <<args, env_token, place, geo, name, forecast,
                 raw_text_summary, calls, replies>>

NextFmt == CallFormat

SpecFmt == InitFmt /\ [][NextFmt]_vars

(* --------------------- inputs of hf_summarize ------------------------- *)
RECURSIVE Fill(_)
Fill(n) ==
  IF n = 0 THEN ""
  ELSE IF n % 2 = 0 THEN LET h == Fill(n \div 2) IN h \o h
  ELSE Fill(n - 1) \o Digits[(n % 10) + 1]

Texts ==
  {"", "Weather forecast for Lahore, Pakistan:\n",
   " \n"}
    \cup {Fill(TextLimit + k) : k \in (0 - 1)..1}
    \cup {Fill(TextLimit + ExtraLen)}

Tokens == {PNone, PStr(""), PStr("hf_secret")}

Generated(v) == PDict(<<KV("generated_text", v)>>)

(* JSON bodies the inference endpoint may answer with *)
HfBodies ==
  {PList(<<Generated(PStr(" Sunny all week. \n"))>>),
   PList(<<Generated(PStr("  "))>>),
   PList(<<Generated(PInt(7))>>),
   PList(<<Generated(PNone)>>),
   PList(<<>>),
   PList(<<PDict(<<KV("summary_text", PStr("Sunny"))>>)>>),
   PList(<<PInt(1)>>),
   PList(<<PNone>>),
   PList(<<PBool(TRUE)>>),
   PList(<<PStr("no field here")>>),
   PList(<<PStr("the generated_text is here")>>),
   PList(<<PList(<<PStr("generated_text")>>)>>),
   PList(<<PList(<<>>)>>),
   Generated(PStr("X")),
   Generated(PStr(" X\n")),
   Generated(PStr("")),
   Generated(PList(<<PStr("X")>>)),
   PDict(<<KV("error", PStr("Model is loading")),
           KV("estimated_time", PFloat(200))>>),
   EmptyDict,
   PStr(" plain text "),
   PStr(""),
   PStr("\t\n"),
   PInt(3), PFloat(15), PBool(FALSE), PNone}

PostOutcomes ==
  TransportFailures \cup HttpFailures \cup {Ok(b) : b \in HfBodies}

(* -------------------- specification: hf_summarize --------------------- *)
InitHf ==
  /\ pc = "summarize"
  /\ args \in [text : Texts, model : {HF_MODEL}, hf_token : Tokens]
  /\ env_token \in Tokens
  /\ place = "" /\ geo = PNone /\ name = "" /\ forecast = PNone
  /\ raw_text_summary = "" /\ calls = <<>> /\ replies = <<>>
  /\ result = NoResult

CallHfSummarize ==
  /\ pc = "summarize"
  /\ calls' = calls \o HfRequests(args.model, args.hf_token, env_token)
  /\ \E outcome \in PostOutcomes :
       /\ result' = hf_summarize(args.text, args.model, args.hf_token,
                                env_token, outcome)
       /\ replies' = IF calls' = calls THEN replies
                     ELSE Append(replies, outcome)
  /\ pc' = "done"
  /\ UNCHANGED <<args, env_token, place, geo, name, forecast,
                 raw_text_summary>>

NextHf == CallHfSummarize

SpecHf == InitHf /\ [][NextHf]_vars

(* ---------------- inputs of get_forecast_for_place -------------------- *)
Places == {"", "  ", "\t \n", " Lahore, Pakistan ", "Atlantis"}
DaysValues == {PInt(3), PFloat(70), PStr("seven")}

Lahore ==
  PDict(<<KV("name", PStr("Lahore")), KV("latitude", PFloat(315)),
          KV("longitude", PFloat(743)), KV("country", PStr("Pakistan"))>>)

(* JSON bodies the geocoding endpoint may answer with *)
GeoBodies ==
  {PDict(<<KV("results", PList(<<Lahore>>))>>),
   PDict(<<KV("results", PList(<<PDict(<<KV("id", PInt(1))>>)>>))>>),
   PDict(<<KV("generationtime_ms", PFloat(5))>>),
   PDict(<<KV("results", PList(<<>>))>>),
   PDict(<<KV("results", PNone)>>),
   PDict(<<KV("results", PList(<<PNone>>))>>),
   PDict(<<KV("results", PList(<<EmptyDict>>))>>),
   PDict(<<KV("results", PList(<<PStr("Lahore")>>))>>),
   PDict(<<KV("results", PList(<<PInt(5)>>))>>),
   PDict(<<KV("results", PStr("Lahore"))>>),
   PDict(<<KV("results", PInt(1))>>),
   PDict(<<KV("results", PDict(<<KV("name", PStr("Lahore"))>>))>>),
   PList(<<Lahore>>),
   PNone}

GeoOutcomes ==
  TransportFailures \cup HttpFailures \cup {Ok(b) : b \in GeoBodies}

(* forecast bodies with the five series of equal length, of unequal       *)
(* lengths, with a key missing, with a bad entry; and malformed bodies     *)
ForecastBodies ==
  {MkForecast([k \in 1..5 |-> MaxLen], NoBad),
   MkForecast([k \in 1..5 |-> IF k = 2 THEN MaxLen ELSE ExtraLen], NoBad),
   MkForecast([k \in 1..5 |-> IF k = 4 THEN Absent ELSE MaxLen], NoBad),
   MkForecast([k \in 1..5 |-> MaxLen], <<1, 1>>),
   MkForecast([k \in 1..5 |-> MaxLen], <<3, MaxLen>>)}
    \cup MalformedForecasts

ForecastOutcomes ==
  TransportFailures \cup HttpFailures \cup {Ok(b) : b \in ForecastBodies}

(* ---------------- specification: get_forecast_for_place --------------- *)
Init ==
  /\ pc = "start"
  /\ args \in [place : Places, days : DaysValues, use_hf : BOOLEAN]
  /\ env_token \in Tokens
  /\ place = "" /\ geo = PNone /\ name = "" /\ forecast = PNone
  /\ raw_text_summary = "" /\ calls = <<>> /\ replies = <<>>
  /\ result = NoResult

(* lines 124-126 with the place tested as typed, not stripped *)
ValidateUnstripped ==
  /\ pc = "start"
  /\ place' = args.place
  /\ IF place' = ""
     THEN /\ result' = Pair(Guidance, EmptyDict)
          /\ pc' = "done"
     ELSE /\ result' = result
          /\ pc' = "geocode"
  /\ UNCHANGED <<args, env_token, geo, name, forecast, raw_text_summary,
                 calls, replies>>

(* lines 124-126 *)
Validate ==
  /\ pc = "start"
  /\ place' = PyStrip(args.place)
  /\ IF place' = ""
     THEN /\ result' = Pair(Guidance, EmptyDict)
          /\ pc' = "done"
     ELSE /\ result' = result
          /\ pc' = "geocode"
  /\ UNCHANGED <<args, env_token, geo, name, forecast, raw_text_summary,
                 calls, replies>>

(* lines 128-139 *)
Geocode ==
  /\ pc = "geocode"
  /\ calls' = Append(calls, Request("GET", GEOCODE_URL))
  /\ \E outcome \in GeoOutcomes :
       LET r == geocode_place(outcome)
       IN /\ replies' = Append(replies, outcome)
          /\ IF r.kind = "raise"
             THEN /\ result' = Pair("Error during geocoding: " \o r.msg,
                                    EmptyDict)
                  /\ pc' = "done"
                  /\ UNCHANGED <<geo, name>>
             ELSE /\ geo' = r.val
                  /\ IF ~Truthy(r.val)
                     THEN /\ result' = Pair("Location not found: " \o place,
                                            EmptyDict)
                          /\ pc' = "done"
                          /\ name' = name
                     ELSE LET n == PyGet(r.val, "name", PNone)
                              c == PyGet(r.val, "country", PNone)
                          IN IF n.kind = "raise"
                             THEN /\ result' = n
                                  /\ pc' = "done"
                                  /\ name' = name
                             ELSE /\ name' = PyStr(n.val) \o ", " \o PyStr(c.val)
                                  /\ result' = result
                                  /\ pc' = "forecast"
  /\ UNCHANGED <<args, env_token, place, forecast, raw_text_summary>>

(* lines 141-145; int(days) is evaluated before fetch_open_meteo is called *)
FetchForecast ==
  /\ pc = "forecast"
  /\ LET ndays == PyInt(args.days)
     IN IF ndays.kind = "raise"
        THEN /\ result' = Pair("Error fetching forecast for " \o name \o ": "
                               \o ndays.msg, EmptyDict)
             /\ pc' = "done"
             /\ UNCHANGED <<forecast, calls, replies>>
        ELSE /\ calls' = Append(calls, Request("GET", FORECAST_URL))
             /\ \E outcome \in ForecastOutcomes :
                  LET r == fetch_open_meteo(PyGet(geo, "latitude", PNone).val,
                                            PyGet(geo, "longitude", PNone).val,
                                            ndays.val, outcome)
                  IN /\ replies' = Append(replies, outcome)
                     /\ IF r.kind = "raise"
                        THEN /\ result' = Pair("Error fetching forecast for "
                                               \o name \o ": " \o r.msg,
                                               EmptyDict)
                             /\ pc' = "done"
                             /\ forecast' = forecast
                        ELSE /\ forecast' = r.val
                             /\ result' = result
                             /\ pc' = "format"
  /\ UNCHANGED <<args, env_token, place, geo, name, raw_text_summary>>

(* lines 147-148: the call stands outside every try block *)
BuildText ==
  /\ pc = "format"
  /\ LET r == format_forecast_text(name, forecast)
     IN IF r.kind = "raise"
        THEN /\ result' = r
             /\ pc' = "done"
             /\ raw_text_summary' = raw_text_summary
        ELSE /\ raw_text_summary' = r.val.s
             /\ result' = result
             /\ pc' = "summarize"
  /\ UNCHANGED <<args, env_token, place, geo, name, forecast, calls,
                 replies>>

(* lines 150-160 *)
Summarize ==
  /\ pc = "summarize"
  /\ LET hf_token == env_token
     IN IF args.use_hf /\ Truthy(hf_token)
        THEN /\ calls' = calls \o HfRequests(HF_MODEL, hf_token, env_token)
             /\ \E outcome \in PostOutcomes :
                  LET summary == hf_summarize(raw_text_summary, HF_MODEL,
                                             hf_token, env_token, outcome)
                  IN /\ replies' = Append(replies, outcome)
                     /\ result' = IF summary.kind = "raise" THEN summary
                                  ELSE Ret(<<summary.val, forecast>>)
        ELSE /\ UNCHANGED <<calls, replies>>
             /\ result' = IF args.use_hf
                          THEN Pair(NoTokenNotice \o raw_text_summary, forecast)
                          ELSE Pair(raw_text_summary, forecast)
  /\ pc' = "done"
  /\ UNCHANGED <<args, env_token, place, geo, name, forecast,
                 raw_text_summary>>

Next == Validate \/ Geocode \/ FetchForecast \/ BuildText \/ Summarize

Spec == Init /\ [][Next]_vars

(* ============================ properties ============================== *)
IsBlank(s) == \A i \in 1..Len(s) : Char(s, i) \in Whitespace

FirstChars(s, n) == SubSeq(s, 1, IF Len(s) < n THEN Len(s) ELSE n)

RECURSIVE SplitLines(_)
SplitLines(s) ==
  IF \A i \in 1..Len(s) : Char(s, i) # "\n" THEN <<s>>
  ELSE LET i == CHOOSE k \in 1..Len(s) :
                  /\ Char(s, k) = "\n"
                  /\ \A j \in 1..(k - 1) : Char(s, j) # "\n"
       IN <<SubSeq(s, 1, i - 1)>> \o SplitLines(SubSeq(s, i + 1, Len(s)))

GeocodeGet == [method |-> "GET",
               url |-> "https://geocoding-api.open-meteo.com/v1/search"]
ForecastGet == [method |-> "GET",
                url |-> "https://api.open-meteo.com/v1/forecast"]
SummarizePost ==
  [method |-> "POST",
   url |-> "https://api-inference.huggingface.co/models/google/flan-t5-small"]
Pipeline == <<GeocodeGet, ForecastGet, SummarizePost>>

(* the geocode call was answered and gave a result *)
GeoFound ==
  /\ Len(replies) >= 1
  /\ geocode_place(replies[1]).kind = "return"
  /\ Truthy(geocode_place(replies[1]).val)

(* the forecast call was issued and answered with a JSON body *)
ForecastOk ==
  /\ Len(replies) >= 2
  /\ HttpJson(ForecastGet.url, replies[2]).kind = "return"

Returned == result.kind = "return"
ReturnedPair ==
  /\ Returned
  /\ Len(result.val) = 2
  /\ result.val[1].t = "str"

(* C1: get_forecast_for_place always ends by returning a (text, data)     *)
(* pair; no exception leaves it, whatever the three calls answer.          *)
C1_AlwaysReturnsPair == pc = "done" => ReturnedPair

(* C2: a place that is empty or only whitespace gives the guidance message *)
(* with empty data, and no outbound call is ever issued for it, whatever   *)
(* days, use_hf and the credential are.                                    *)
C2_BlankPlaceNoCalls ==
  IsBlank(args.place) =>
    /\ calls = <<>>
    /\ pc \in {"start", "done"}
    /\ pc = "done" =>
         result = Ret(<<PStr("Please enter a location (e.g., "
                             \o "'Rahim Yar Khan, Pakistan')."),
                        PDict(<<>>)>>)

C2_Witness ==
  /\ pc = "done"
  /\ args.place = "\t \n"
  /\ args.use_hf
  /\ Truthy(env_token)
  /\ calls = <<>>

(* C3: the calls issued are a prefix of geocode, forecast, summarize, each *)
(* answered once; the forecast call follows a geocode result and the       *)
(* summarize call follows a successful forecast call.                      *)
C3_CallsArePipelinePrefix ==
  /\ Len(calls) <= 3
  /\ \A i \in 1..Len(calls) : calls[i] = Pipeline[i]
  /\ Len(replies) = Len(calls)
  /\ Len(calls) >= 2 => GeoFound
  /\ Len(calls) >= 3 => ForecastOk

C3_Witness ==
  /\ pc = "done"
  /\ calls = Pipeline
  /\ replies[3] \in TransportFailures

(* C4: the data returned is the forecast response exactly when geocoding   *)
(* found a place and the forecast call succeeded; otherwise the function   *)
(* returns the empty structure with an explanatory message.                *)
C4_DataIffBothSucceeded ==
  pc = "done" =>
    /\ ReturnedPair
    /\ IF GeoFound /\ ForecastOk
       THEN result.val[2] = HttpJson(ForecastGet.url, replies[2]).val
       ELSE /\ result.val[2] = PDict(<<>>)
            /\ \/ result.val[1].s = Guidance
               \/ FirstChars(result.val[1].s, 24) = "Error during geocoding: "
               \/ FirstChars(result.val[1].s, 20) = "Location not found: "
               \/ FirstChars(result.val[1].s, 28)
                    = "Error fetching forecast for "

(* C4 holds of every run of get_forecast_for_place that returns *)
C4_HoldsWhenReturned ==
  (pc = "done" /\ Returned) =>
    IF GeoFound /\ ForecastOk
    THEN result.val[2] = HttpJson(ForecastGet.url, replies[2]).val
    ELSE result.val[2] = PDict(<<>>)

(* C5: after geocoding and the forecast call succeeded the text is the     *)
(* summarizer's return value after exactly one POST (use_hf and a          *)
(* credential), the notice followed by the formatted text without a POST   *)
(* (use_hf, no credential), or the formatted text without a POST.          *)
C5_TextChoice ==
  (pc = "done" /\ GeoFound /\ ForecastOk) =>
    /\ ReturnedPair
    /\ LET formatted == format_forecast_text(name, forecast)
       IN /\ formatted.kind = "return"
          /\ IF args.use_hf /\ Truthy(env_token)
             THEN /\ calls = Pipeline
                  /\ Ret(result.val[1])
                       = hf_summarize(formatted.val.s, HF_MODEL, env_token,
                                     env_token, replies[3])
             ELSE /\ Len(calls) = 2
                  /\ result.val[1].s
                       = (IF args.use_hf
                          THEN "(HF token not set - set HF_API_TOKEN to "
                               \o "enable model summarization)\n\n"
                          ELSE "") \o formatted.val.s

(* C5 holds of every run of get_forecast_for_place that returns *)
C5_HoldsWhenReturned ==
  (pc = "done" /\ GeoFound /\ ForecastOk /\ Returned) => C5_TextChoice

(* C6: hf_summarize never raises: whatever the text, the credential and    *)
(* the outcome of the POST, it returns a string.                           *)
C6_HfAlwaysReturnsString ==
  pc = "done" => (result.kind = "return" /\ result.val.t = "str")

C6_Witness ==
  /\ pc = "done"
  /\ Len(replies) = 1
  /\ replies[1] = Ok(PList(<<Generated(PInt(7))>>))
  /\ result.kind = "return"
  /\ result.val.t = "str"

NoCredential == ~Truthy(args.hf_token) /\ ~Truthy(env_token)

(* C7 as stated: with no credential hf_summarize issues no call and        *)
(* returns "(token not provided; summarization skipped)" followed by the   *)
(* first 2000 characters of the text.                                      *)
C7_SkipNoticeAsStated ==
  (pc = "done" /\ NoCredential) =>
    /\ calls = <<>>
    /\ result = Ret(PStr("(token not provided; summarization skipped)"
                         \o FirstChars(args.text, 2000)))

(* C7 amended: with no credential hf_summarize issues no call and returns  *)
(* "(Hugging Face token not provided; summarization skipped)", a blank     *)
(* line, and the first 2000 characters of the text unmodified.             *)
C7_SkipNotice ==
  (pc = "done" /\ NoCredential) =>
    /\ calls = <<>>
    /\ result = Ret(PStr("(Hugging Face token not provided; "
                         \o "summarization skipped)\n\n"
                         \o FirstChars(args.text, 2000)))

C7_Witness ==
  /\ pc = "done"
  /\ NoCredential
  /\ Len(args.text) > 2000
  /\ result.kind = "return"
  /\ Len(result.val.s) = 58 + 2000

Unexpected(d) ==
  Ret(PStr("(Summarization produced unexpected output) "
           \o FirstChars(PyStr(d), 1000)))

HasField(v) ==
  /\ v.t = "dict"
  /\ \E i \in 1..Len(v.pairs) : v.pairs[i].k = "generated_text"

Field(v) ==
  v.pairs[CHOOSE i \in 1..Len(v.pairs) : v.pairs[i].k = "generated_text"].v

Trimmed(v) == v.t = "str" => result = Ret(PStr(PyStrip(v.s)))

(* C8: a JSON answer is matched in order: a sequence whose first element   *)
(* has the field, an object with the field, a bare string, each returned   *)
(* trimmed; every other shape gives the 'unexpected output' message.       *)
C8_OrderedMatch ==
  (pc = "done" /\ Len(replies) = 1
     /\ HttpJson(SummarizePost.url, replies[1]).kind = "return") =>
    LET d == HttpJson(SummarizePost.url, replies[1]).val
    IN IF d.t = "list" /\ Len(d.items) > 0 /\ HasField(d.items[1])
       THEN Trimmed(Field(d.items[1]))
       ELSE IF HasField(d) THEN Trimmed(Field(d))
       ELSE IF d.t = "str" THEN Trimmed(d)
       ELSE result = Unexpected(d)

(* C9: the text hf_summarize returns is never empty. *)
C9_SummaryNonEmpty ==
  pc = "done" =>
    (result.kind = "return" /\ result.val.t = "str" /\ Len(result.val.s) > 0)

(* the k-th daily series of a forecast body, [] when its key is missing *)
SeriesOf(fj, k) ==
  LET daily == DictGet(fj, "daily", EmptyDict)
  IN DictGet(daily, DailyKeys[k], PList(<<>>))

(* the body is an object whose "daily" is an object of lists *)
HasDailyLists(fj) ==
  /\ fj.t = "dict"
  /\ DictGet(fj, "daily", EmptyDict).t = "dict"
  /\ \A k \in 1..5 : SeriesOf(fj, k).t = "list"

ShortestLen(fj) ==
  CHOOSE n \in 0..(MaxLen + ExtraLen) :
    /\ \A k \in 1..5 : n <= Len(SeriesOf(fj, k).items)
    /\ \E k \in 1..5 : n = Len(SeriesOf(fj, k).items)

Renderable(fj, i) ==
  /\ FromIsoFormat(SeriesOf(fj, 1).items[i]).kind = "return"
  /\ PyInt(SeriesOf(fj, 2).items[i]).kind = "return"
  /\ PyInt(SeriesOf(fj, 3).items[i]).kind = "return"

(* C10: for daily series of any lengths, missing ones included,            *)
(* format_forecast_text emits after the header one dated line per index    *)
(* present in all five series, in index order, and never raises on the     *)
(* mismatch: it raises only on an entry it cannot render.                  *)
C10_LinesAreShortestSeries ==
  (pc = "done" /\ HasDailyLists(args.forecast_json)) =>
    LET fj == args.forecast_json
        n == ShortestLen(fj)
    IN IF \A i \in 1..n : Renderable(fj, i)
       THEN /\ result.kind = "return"
            /\ LET ls == SplitLines(result.val.s)
               IN /\ Len(ls) = n + 2
                  /\ ls[1] = "Weather forecast for " \o args.place_name \o ":"
                  /\ ls[2] = ""
                  /\ \A i \in 1..n :
                       FirstChars(ls[i + 2], 12)
                         = Strftime(FromIsoFormat(SeriesOf(fj, 1).items[i]).val)
                             \o ": "
       ELSE /\ result.kind = "raise"
            /\ result.type \in {"ValueError", "TypeError"}

C10_Witness ==
  /\ pc = "done"
  /\ HasDailyLists(args.forecast_json)
  /\ Len(SeriesOf(args.forecast_json, 1).items) = ExtraLen
  /\ Len(SeriesOf(args.forecast_json, 2).items) = MaxLen
  /\ \A k \in 3..5 : Len(SeriesOf(args.forecast_json, k).items) = ExtraLen
  /\ result.kind = "return"
  /\ Len(SplitLines(result.val.s)) = MaxLen + 2

====
